---- MODULE Spec2Model ----
\* Model of the hardware recommendation engine of main.py: the /recommend
\* handler (recommend) and its selection helpers, run over a catalog drawn
\* from small component lists.
EXTENDS Integers, Sequences, FiniteSets, TLC

VARIABLES cat, profileIn, budget, pc, result,
          psuList, gpuA, gpuB, psuA, psuB, candList, percent, chosen

vars == <<cat, profileIn, budget, pc, result,
          psuList, gpuA, gpuB, psuA, psuB, candList, percent, chosen>>

helperVars == <<psuList, gpuA, gpuB, psuA, psuB, candList, percent, chosen>>

\* ---------------------------------------------------------------------
\* Components. Every component is a record with all attributes; an
\* attribute the catalog does not give is "none".
\* ---------------------------------------------------------------------
Comp(n, pr, perf, sock, sz, hz, res, pw, lvl) ==
    [name |-> n, price |-> pr, perf |-> perf, socket |-> sock, size |-> sz,
     hz |-> hz, res |-> res, power |-> pw, level |-> lvl]

NullComp == Comp("None", 0, 0, "none", 0, 0, "none", 0, "none")

CpuA == Comp("cpuA", 2000, 3, "AM4", 0, 0, "none", 0, "none")
CpuB == Comp("cpuB", 6000, 7, "LGA1700", 0, 0, "none", 0, "none")
CpuC == Comp("cpuC", 9000, 9, "AM4", 0, 0, "none", 0, "none")

GInt == Comp("gInt", 500, 1, "none", 0, 0, "none", 30, "integrated")
GMid == Comp("gMid", 5000, 5, "none", 0, 0, "none", 150, "mid")
GHigh == Comp("gHigh", 12000, 8, "none", 0, 0, "none", 220, "high")
GUltra == Comp("gUltra", 20000, 10, "none", 0, 0, "none", 320, "high")

R8 == Comp("ram8", 800, 2, "none", 8, 0, "none", 0, "none")
R16 == Comp("ram16", 1725, 4, "none", 16, 0, "none", 0, "none")
R32 == Comp("ram32", 4000, 6, "none", 32, 0, "none", 0, "none")

S256 == Comp("ssd256", 700, 2, "none", 256, 0, "none", 0, "none")
S512 == Comp("ssd512", 1200, 4, "none", 512, 0, "none", 0, "none")
S1000 == Comp("ssd1000", 2500, 6, "none", 1000, 0, "none", 0, "none")

P500 == Comp("psu500", 900, 1, "none", 0, 0, "none", 0, "none")
P650 == Comp("psu650", 1300, 2, "none", 0, 0, "none", 0, "none")
P850 == Comp("psu850", 2000, 3, "none", 0, 0, "none", 0, "none")

MA == Comp("moboAM4", 1500, 3, "AM4", 0, 0, "none", 0, "none")
ML == Comp("moboLGA", 1800, 4, "LGA1700", 0, 0, "none", 0, "none")

M60 == Comp("mon60", 2000, 2, "none", 0, 60, "1080p", 0, "none")
M120 == Comp("mon120", 3000, 4, "none", 0, 120, "1080p", 0, "none")
M144 == Comp("mon144", 4500, 6, "none", 0, 144, "1440p", 0, "none")

\* The catalog lists the model draws knowledge["components"] from.
CpuLists == {<<CpuA>>, <<CpuB, CpuA>>, <<CpuB>>, <<CpuC, CpuB, CpuA>>}
GpuLists == {<<GMid, GInt>>, <<GMid, GHigh>>, <<GInt, GUltra>>}
RamLists == {<<R8, R16>>, <<R16, R32>>, <<R8, R32>>}
SsdLists == {<<S256, S512>>, <<S512, S1000>>}
PsuLists == {<<P500>>, <<P500, P650, P850>>}
MoboLists == {<<MA>>, <<ML, MA>>}
MonitorLists == {<<M60, M120>>, <<M60, M144>>}

Catalogs == [cpus : CpuLists, gpus : GpuLists, rams : RamLists, ssds : SsdLists,
             psus : PsuLists, motherboards : MoboLists, monitors : MonitorLists]

\* knowledge["profiles"]: profile name -> {gpu_required, min_ram_gb, min_ssd_gb}
Profiles ==
    [ofimatico   |-> [gpu_required |-> FALSE, min_ram_gb |-> 8,  min_ssd_gb |-> 256],
     estudiante  |-> [gpu_required |-> FALSE, min_ram_gb |-> 8,  min_ssd_gb |-> 512],
     programador |-> [gpu_required |-> FALSE, min_ram_gb |-> 16, min_ssd_gb |-> 512],
     gamer       |-> [gpu_required |-> TRUE,  min_ram_gb |-> 16, min_ssd_gb |-> 512],
     disenador   |-> [gpu_required |-> TRUE,  min_ram_gb |-> 16, min_ssd_gb |-> 1000],
     ninguno     |-> [gpu_required |-> FALSE, min_ram_gb |-> 8,  min_ssd_gb |-> 256]]

\* rules_meta["allocation_percentages"], in percent; estudiante leaves ram
\* and ssd to the handler's defaults.
Allocations ==
    [ofimatico   |-> [cpu |-> 30, gpu |-> 5,  ram |-> 15, ssd |-> 15],
     estudiante  |-> [cpu |-> 30, gpu |-> 10],
     programador |-> [cpu |-> 30, gpu |-> 15, ram |-> 20, ssd |-> 15],
     gamer       |-> [cpu |-> 25, gpu |-> 35, ram |-> 12, ssd |-> 10],
     disenador   |-> [cpu |-> 30, gpu |-> 30, ram |-> 15, ssd |-> 10]]

\* allocation.get(key, default)
AllocGet(alloc, key, dflt) == IF key \in DOMAIN alloc THEN alloc[key] ELSE dflt

\* ---------------------------------------------------------------------
\* Profile strings: sequences of characters, lower-cased and stripped as
\* (req.profile or "").lower().strip() does.
\* ---------------------------------------------------------------------
\* A character is its Unicode code point; a string is a sequence of them.
\* code points str.isspace() accepts, as ranges <<first, last>>
WhitespaceRanges ==
    <<<<9, 13>>, <<28, 32>>, <<133, 133>>, <<160, 160>>, <<5760, 5760>>, <<8192, 8202>>, <<8232, 8233>>,
    <<8239, 8239>>, <<8287, 8287>>, <<12288, 12288>>>>

\* code points c with c.lower() # c, and c.lower() as code points
LowerFrom ==
    <<65, 66, 67, 68, 69, 70, 71, 72, 73, 74, 75, 76, 77, 78, 79, 80, 81, 82, 83, 84, 85, 86, 87, 88, 89,
    90, 192, 193, 194, 195, 196, 197, 198, 199, 200, 201, 202, 203, 204, 205, 206, 207, 208, 209, 210,
    211, 212, 213, 214, 216, 217, 218, 219, 220, 221, 222, 256, 258, 260, 262, 264, 266, 268, 270, 272,
    274, 276, 278, 280, 282, 284, 286, 288, 290, 292, 294, 296, 298, 300, 302, 304, 306, 308, 310, 313,
    315, 317, 319, 321, 323, 325, 327, 330, 332, 334, 336, 338, 340, 342, 344, 346, 348, 350, 352, 354,
    356, 358, 360, 362, 364, 366, 368, 370, 372, 374, 376, 377, 379, 381, 385, 386, 388, 390, 391, 393,
    394, 395, 398, 399, 400, 401, 403, 404, 406, 407, 408, 412, 413, 415, 416, 418, 420, 422, 423, 425,
    428, 430, 431, 433, 434, 435, 437, 439, 440, 444, 452, 453, 455, 456, 458, 459, 461, 463, 465, 467,
    469, 471, 473, 475, 478, 480, 482, 484, 486, 488, 490, 492, 494, 497, 498, 500, 502, 503, 504, 506,
    508, 510, 512, 514, 516, 518, 520, 522, 524, 526, 528, 530, 532, 534, 536, 538, 540, 542, 544, 546,
    548, 550, 552, 554, 556, 558, 560, 562, 570, 571, 573, 574, 577, 579, 580, 581, 582, 584, 586, 588,
    590, 880, 882, 886, 895, 902, 904, 905, 906, 908, 910, 911, 913, 914, 915, 916, 917, 918, 919, 920,
    921, 922, 923, 924, 925, 926, 927, 928, 929, 931, 932, 933, 934, 935, 936, 937, 938, 939, 975, 984,
    986, 988, 990, 992, 994, 996, 998, 1000, 1002, 1004, 1006, 1012, 1015, 1017, 1018, 1021, 1022,
    1023, 1024, 1025, 1026, 1027, 1028, 1029, 1030, 1031, 1032, 1033, 1034, 1035, 1036, 1037, 1038,
    1039, 1040, 1041, 1042, 1043, 1044, 1045, 1046, 1047, 1048, 1049, 1050, 1051, 1052, 1053, 1054,
    1055, 1056, 1057, 1058, 1059, 1060, 1061, 1062, 1063, 1064, 1065, 1066, 1067, 1068, 1069, 1070,
    1071, 1120, 1122, 1124, 1126, 1128, 1130, 1132, 1134, 1136, 1138, 1140, 1142, 1144, 1146, 1148,
    1150, 1152, 1162, 1164, 1166, 1168, 1170, 1172, 1174, 1176, 1178, 1180, 1182, 1184, 1186, 1188,
    1190, 1192, 1194, 1196, 1198, 1200, 1202, 1204, 1206, 1208, 1210, 1212, 1214, 1216, 1217, 1219,
    1221, 1223, 1225, 1227, 1229, 1232, 1234, 1236, 1238, 1240, 1242, 1244, 1246, 1248, 1250, 1252,
    1254, 1256, 1258, 1260, 1262, 1264, 1266, 1268, 1270, 1272, 1274, 1276, 1278, 1280, 1282, 1284,
    1286, 1288, 1290, 1292, 1294, 1296, 1298, 1300, 1302, 1304, 1306, 1308, 1310, 1312, 1314, 1316,
    1318, 1320, 1322, 1324, 1326, 1329, 1330, 1331, 1332, 1333, 1334, 1335, 1336, 1337, 1338, 1339,
    1340, 1341, 1342, 1343, 1344, 1345, 1346, 1347, 1348, 1349, 1350, 1351, 1352, 1353, 1354, 1355,
    1356, 1357, 1358, 1359, 1360, 1361, 1362, 1363, 1364, 1365, 1366, 4256, 4257, 4258, 4259, 4260,
    4261, 4262, 4263, 4264, 4265, 4266, 4267, 4268, 4269, 4270, 4271, 4272, 4273, 4274, 4275, 4276,
    4277, 4278, 4279, 4280, 4281, 4282, 4283, 4284, 4285, 4286, 4287, 4288, 4289, 4290, 4291, 4292,
    4293, 4295, 4301, 5024, 5025, 5026, 5027, 5028, 5029, 5030, 5031, 5032, 5033, 5034, 5035, 5036,
    5037, 5038, 5039, 5040, 5041, 5042, 5043, 5044, 5045, 5046, 5047, 5048, 5049, 5050, 5051, 5052,
    5053, 5054, 5055, 5056, 5057, 5058, 5059, 5060, 5061, 5062, 5063, 5064, 5065, 5066, 5067, 5068,
    5069, 5070, 5071, 5072, 5073, 5074, 5075, 5076, 5077, 5078, 5079, 5080, 5081, 5082, 5083, 5084,
    5085, 5086, 5087, 5088, 5089, 5090, 5091, 5092, 5093, 5094, 5095, 5096, 5097, 5098, 5099, 5100,
    5101, 5102, 5103, 5104, 5105, 5106, 5107, 5108, 5109, 7312, 7313, 7314, 7315, 7316, 7317, 7318,
    7319, 7320, 7321, 7322, 7323, 7324, 7325, 7326, 7327, 7328, 7329, 7330, 7331, 7332, 7333, 7334,
    7335, 7336, 7337, 7338, 7339, 7340, 7341, 7342, 7343, 7344, 7345, 7346, 7347, 7348, 7349, 7350,
    7351, 7352, 7353, 7354, 7357, 7358, 7359, 7680, 7682, 7684, 7686, 7688, 7690, 7692, 7694, 7696,
    7698, 7700, 7702, 7704, 7706, 7708, 7710, 7712, 7714, 7716, 7718, 7720, 7722, 7724, 7726, 7728,
    7730, 7732, 7734, 7736, 7738, 7740, 7742, 7744, 7746, 7748, 7750, 7752, 7754, 7756, 7758, 7760,
    7762, 7764, 7766, 7768, 7770, 7772, 7774, 7776, 7778, 7780, 7782, 7784, 7786, 7788, 7790, 7792,
    7794, 7796, 7798, 7800, 7802, 7804, 7806, 7808, 7810, 7812, 7814, 7816, 7818, 7820, 7822, 7824,
    7826, 7828, 7838, 7840, 7842, 7844, 7846, 7848, 7850, 7852, 7854, 7856, 7858, 7860, 7862, 7864,
    7866, 7868, 7870, 7872, 7874, 7876, 7878, 7880, 7882, 7884, 7886, 7888, 7890, 7892, 7894, 7896,
    7898, 7900, 7902, 7904, 7906, 7908, 7910, 7912, 7914, 7916, 7918, 7920, 7922, 7924, 7926, 7928,
    7930, 7932, 7934, 7944, 7945, 7946, 7947, 7948, 7949, 7950, 7951, 7960, 7961, 7962, 7963, 7964,
    7965, 7976, 7977, 7978, 7979, 7980, 7981, 7982, 7983, 7992, 7993, 7994, 7995, 7996, 7997, 7998,
    7999, 8008, 8009, 8010, 8011, 8012, 8013, 8025, 8027, 8029, 8031, 8040, 8041, 8042, 8043, 8044,
    8045, 8046, 8047, 8072, 8073, 8074, 8075, 8076, 8077, 8078, 8079, 8088, 8089, 8090, 8091, 8092,
    8093, 8094, 8095, 8104, 8105, 8106, 8107, 8108, 8109, 8110, 8111, 8120, 8121, 8122, 8123, 8124,
    8136, 8137, 8138, 8139, 8140, 8152, 8153, 8154, 8155, 8168, 8169, 8170, 8171, 8172, 8184, 8185,
    8186, 8187, 8188, 8486, 8490, 8491, 8498, 8544, 8545, 8546, 8547, 8548, 8549, 8550, 8551, 8552,
    8553, 8554, 8555, 8556, 8557, 8558, 8559, 8579, 9398, 9399, 9400, 9401, 9402, 9403, 9404, 9405,
    9406, 9407, 9408, 9409, 9410, 9411, 9412, 9413, 9414, 9415, 9416, 9417, 9418, 9419, 9420, 9421,
    9422, 9423, 11264, 11265, 11266, 11267, 11268, 11269, 11270, 11271, 11272, 11273, 11274, 11275,
    11276, 11277, 11278, 11279, 11280, 11281, 11282, 11283, 11284, 11285, 11286, 11287, 11288, 11289,
    11290, 11291, 11292, 11293, 11294, 11295, 11296, 11297, 11298, 11299, 11300, 11301, 11302, 11303,
    11304, 11305, 11306, 11307, 11308, 11309, 11310, 11311, 11360, 11362, 11363, 11364, 11367, 11369,
    11371, 11373, 11374, 11375, 11376, 11378, 11381, 11390, 11391, 11392, 11394, 11396, 11398, 11400,
    11402, 11404, 11406, 11408, 11410, 11412, 11414, 11416, 11418, 11420, 11422, 11424, 11426, 11428,
    11430, 11432, 11434, 11436, 11438, 11440, 11442, 11444, 11446, 11448, 11450, 11452, 11454, 11456,
    11458, 11460, 11462, 11464, 11466, 11468, 11470, 11472, 11474, 11476, 11478, 11480, 11482, 11484,
    11486, 11488, 11490, 11499, 11501, 11506, 42560, 42562, 42564, 42566, 42568, 42570, 42572, 42574,
    42576, 42578, 42580, 42582, 42584, 42586, 42588, 42590, 42592, 42594, 42596, 42598, 42600, 42602,
    42604, 42624, 42626, 42628, 42630, 42632, 42634, 42636, 42638, 42640, 42642, 42644, 42646, 42648,
    42650, 42786, 42788, 42790, 42792, 42794, 42796, 42798, 42802, 42804, 42806, 42808, 42810, 42812,
    42814, 42816, 42818, 42820, 42822, 42824, 42826, 42828, 42830, 42832, 42834, 42836, 42838, 42840,
    42842, 42844, 42846, 42848, 42850, 42852, 42854, 42856, 42858, 42860, 42862, 42873, 42875, 42877,
    42878, 42880, 42882, 42884, 42886, 42891, 42893, 42896, 42898, 42902, 42904, 42906, 42908, 42910,
    42912, 42914, 42916, 42918, 42920, 42922, 42923, 42924, 42925, 42926, 42928, 42929, 42930, 42931,
    42932, 42934, 42936, 42938, 42940, 42942, 42944, 42946, 42948, 42949, 42950, 42951, 42953, 42960,
    42966, 42968, 42997, 65313, 65314, 65315, 65316, 65317, 65318, 65319, 65320, 65321, 65322, 65323,
    65324, 65325, 65326, 65327, 65328, 65329, 65330, 65331, 65332, 65333, 65334, 65335, 65336, 65337,
    65338, 66560, 66561, 66562, 66563, 66564, 66565, 66566, 66567, 66568, 66569, 66570, 66571, 66572,
    66573, 66574, 66575, 66576, 66577, 66578, 66579, 66580, 66581, 66582, 66583, 66584, 66585, 66586,
    66587, 66588, 66589, 66590, 66591, 66592, 66593, 66594, 66595, 66596, 66597, 66598, 66599, 66736,
    66737, 66738, 66739, 66740, 66741, 66742, 66743, 66744, 66745, 66746, 66747, 66748, 66749, 66750,
    66751, 66752, 66753, 66754, 66755, 66756, 66757, 66758, 66759, 66760, 66761, 66762, 66763, 66764,
    66765, 66766, 66767, 66768, 66769, 66770, 66771, 66928, 66929, 66930, 66931, 66932, 66933, 66934,
    66935, 66936, 66937, 66938, 66940, 66941, 66942, 66943, 66944, 66945, 66946, 66947, 66948, 66949,
    66950, 66951, 66952, 66953, 66954, 66956, 66957, 66958, 66959, 66960, 66961, 66962, 66964, 66965,
    68736, 68737, 68738, 68739, 68740, 68741, 68742, 68743, 68744, 68745, 68746, 68747, 68748, 68749,
    68750, 68751, 68752, 68753, 68754, 68755, 68756, 68757, 68758, 68759, 68760, 68761, 68762, 68763,
    68764, 68765, 68766, 68767, 68768, 68769, 68770, 68771, 68772, 68773, 68774, 68775, 68776, 68777,
    68778, 68779, 68780, 68781, 68782, 68783, 68784, 68785, 68786, 71840, 71841, 71842, 71843, 71844,
    71845, 71846, 71847, 71848, 71849, 71850, 71851, 71852, 71853, 71854, 71855, 71856, 71857, 71858,
    71859, 71860, 71861, 71862, 71863, 71864, 71865, 71866, 71867, 71868, 71869, 71870, 71871, 93760,
    93761, 93762, 93763, 93764, 93765, 93766, 93767, 93768, 93769, 93770, 93771, 93772, 93773, 93774,
    93775, 93776, 93777, 93778, 93779, 93780, 93781, 93782, 93783, 93784, 93785, 93786, 93787, 93788,
    93789, 93790, 93791, 125184, 125185, 125186, 125187, 125188, 125189, 125190, 125191, 125192,
    125193, 125194, 125195, 125196, 125197, 125198, 125199, 125200, 125201, 125202, 125203, 125204,
    125205, 125206, 125207, 125208, 125209, 125210, 125211, 125212, 125213, 125214, 125215, 125216,
    125217>>

LowerTo ==
    <<<<97>>, <<98>>, <<99>>, <<100>>, <<101>>, <<102>>, <<103>>, <<104>>, <<105>>, <<106>>, <<107>>,
    <<108>>, <<109>>, <<110>>, <<111>>, <<112>>, <<113>>, <<114>>, <<115>>, <<116>>, <<117>>, <<118>>,
    <<119>>, <<120>>, <<121>>, <<122>>, <<224>>, <<225>>, <<226>>, <<227>>, <<228>>, <<229>>, <<230>>,
    <<231>>, <<232>>, <<233>>, <<234>>, <<235>>, <<236>>, <<237>>, <<238>>, <<239>>, <<240>>, <<241>>,
    <<242>>, <<243>>, <<244>>, <<245>>, <<246>>, <<248>>, <<249>>, <<250>>, <<251>>, <<252>>, <<253>>,
    <<254>>, <<257>>, <<259>>, <<261>>, <<263>>, <<265>>, <<267>>, <<269>>, <<271>>, <<273>>, <<275>>,
    <<277>>, <<279>>, <<281>>, <<283>>, <<285>>, <<287>>, <<289>>, <<291>>, <<293>>, <<295>>, <<297>>,
    <<299>>, <<301>>, <<303>>, <<105, 775>>, <<307>>, <<309>>, <<311>>, <<314>>, <<316>>, <<318>>,
    <<320>>, <<322>>, <<324>>, <<326>>, <<328>>, <<331>>, <<333>>, <<335>>, <<337>>, <<339>>, <<341>>,
    <<343>>, <<345>>, <<347>>, <<349>>, <<351>>, <<353>>, <<355>>, <<357>>, <<359>>, <<361>>, <<363>>,
    <<365>>, <<367>>, <<369>>, <<371>>, <<373>>, <<375>>, <<255>>, <<378>>, <<380>>, <<382>>, <<595>>,
    <<387>>, <<389>>, <<596>>, <<392>>, <<598>>, <<599>>, <<396>>, <<477>>, <<601>>, <<603>>, <<402>>,
    <<608>>, <<611>>, <<617>>, <<616>>, <<409>>, <<623>>, <<626>>, <<629>>, <<417>>, <<419>>, <<421>>,
    <<640>>, <<424>>, <<643>>, <<429>>, <<648>>, <<432>>, <<650>>, <<651>>, <<436>>, <<438>>, <<658>>,
    <<441>>, <<445>>, <<454>>, <<454>>, <<457>>, <<457>>, <<460>>, <<460>>, <<462>>, <<464>>, <<466>>,
    <<468>>, <<470>>, <<472>>, <<474>>, <<476>>, <<479>>, <<481>>, <<483>>, <<485>>, <<487>>, <<489>>,
    <<491>>, <<493>>, <<495>>, <<499>>, <<499>>, <<501>>, <<405>>, <<447>>, <<505>>, <<507>>, <<509>>,
    <<511>>, <<513>>, <<515>>, <<517>>, <<519>>, <<521>>, <<523>>, <<525>>, <<527>>, <<529>>, <<531>>,
    <<533>>, <<535>>, <<537>>, <<539>>, <<541>>, <<543>>, <<414>>, <<547>>, <<549>>, <<551>>, <<553>>,
    <<555>>, <<557>>, <<559>>, <<561>>, <<563>>, <<11365>>, <<572>>, <<410>>, <<11366>>, <<578>>,
    <<384>>, <<649>>, <<652>>, <<583>>, <<585>>, <<587>>, <<589>>, <<591>>, <<881>>, <<883>>, <<887>>,
    <<1011>>, <<940>>, <<941>>, <<942>>, <<943>>, <<972>>, <<973>>, <<974>>, <<945>>, <<946>>, <<947>>,
    <<948>>, <<949>>, <<950>>, <<951>>, <<952>>, <<953>>, <<954>>, <<955>>, <<956>>, <<957>>, <<958>>,
    <<959>>, <<960>>, <<961>>, <<963>>, <<964>>, <<965>>, <<966>>, <<967>>, <<968>>, <<969>>, <<970>>,
    <<971>>, <<983>>, <<985>>, <<987>>, <<989>>, <<991>>, <<993>>, <<995>>, <<997>>, <<999>>, <<1001>>,
    <<1003>>, <<1005>>, <<1007>>, <<952>>, <<1016>>, <<1010>>, <<1019>>, <<891>>, <<892>>, <<893>>,
    <<1104>>, <<1105>>, <<1106>>, <<1107>>, <<1108>>, <<1109>>, <<1110>>, <<1111>>, <<1112>>, <<1113>>,
    <<1114>>, <<1115>>, <<1116>>, <<1117>>, <<1118>>, <<1119>>, <<1072>>, <<1073>>, <<1074>>, <<1075>>,
    <<1076>>, <<1077>>, <<1078>>, <<1079>>, <<1080>>, <<1081>>, <<1082>>, <<1083>>, <<1084>>, <<1085>>,
    <<1086>>, <<1087>>, <<1088>>, <<1089>>, <<1090>>, <<1091>>, <<1092>>, <<1093>>, <<1094>>, <<1095>>,
    <<1096>>, <<1097>>, <<1098>>, <<1099>>, <<1100>>, <<1101>>, <<1102>>, <<1103>>, <<1121>>, <<1123>>,
    <<1125>>, <<1127>>, <<1129>>, <<1131>>, <<1133>>, <<1135>>, <<1137>>, <<1139>>, <<1141>>, <<1143>>,
    <<1145>>, <<1147>>, <<1149>>, <<1151>>, <<1153>>, <<1163>>, <<1165>>, <<1167>>, <<1169>>, <<1171>>,
    <<1173>>, <<1175>>, <<1177>>, <<1179>>, <<1181>>, <<1183>>, <<1185>>, <<1187>>, <<1189>>, <<1191>>,
    <<1193>>, <<1195>>, <<1197>>, <<1199>>, <<1201>>, <<1203>>, <<1205>>, <<1207>>, <<1209>>, <<1211>>,
    <<1213>>, <<1215>>, <<1231>>, <<1218>>, <<1220>>, <<1222>>, <<1224>>, <<1226>>, <<1228>>, <<1230>>,
    <<1233>>, <<1235>>, <<1237>>, <<1239>>, <<1241>>, <<1243>>, <<1245>>, <<1247>>, <<1249>>, <<1251>>,
    <<1253>>, <<1255>>, <<1257>>, <<1259>>, <<1261>>, <<1263>>, <<1265>>, <<1267>>, <<1269>>, <<1271>>,
    <<1273>>, <<1275>>, <<1277>>, <<1279>>, <<1281>>, <<1283>>, <<1285>>, <<1287>>, <<1289>>, <<1291>>,
    <<1293>>, <<1295>>, <<1297>>, <<1299>>, <<1301>>, <<1303>>, <<1305>>, <<1307>>, <<1309>>, <<1311>>,
    <<1313>>, <<1315>>, <<1317>>, <<1319>>, <<1321>>, <<1323>>, <<1325>>, <<1327>>, <<1377>>, <<1378>>,
    <<1379>>, <<1380>>, <<1381>>, <<1382>>, <<1383>>, <<1384>>, <<1385>>, <<1386>>, <<1387>>, <<1388>>,
    <<1389>>, <<1390>>, <<1391>>, <<1392>>, <<1393>>, <<1394>>, <<1395>>, <<1396>>, <<1397>>, <<1398>>,
    <<1399>>, <<1400>>, <<1401>>, <<1402>>, <<1403>>, <<1404>>, <<1405>>, <<1406>>, <<1407>>, <<1408>>,
    <<1409>>, <<1410>>, <<1411>>, <<1412>>, <<1413>>, <<1414>>, <<11520>>, <<11521>>, <<11522>>,
    <<11523>>, <<11524>>, <<11525>>, <<11526>>, <<11527>>, <<11528>>, <<11529>>, <<11530>>, <<11531>>,
    <<11532>>, <<11533>>, <<11534>>, <<11535>>, <<11536>>, <<11537>>, <<11538>>, <<11539>>, <<11540>>,
    <<11541>>, <<11542>>, <<11543>>, <<11544>>, <<11545>>, <<11546>>, <<11547>>, <<11548>>, <<11549>>,
    <<11550>>, <<11551>>, <<11552>>, <<11553>>, <<11554>>, <<11555>>, <<11556>>, <<11557>>, <<11559>>,
    <<11565>>, <<43888>>, <<43889>>, <<43890>>, <<43891>>, <<43892>>, <<43893>>, <<43894>>, <<43895>>,
    <<43896>>, <<43897>>, <<43898>>, <<43899>>, <<43900>>, <<43901>>, <<43902>>, <<43903>>, <<43904>>,
    <<43905>>, <<43906>>, <<43907>>, <<43908>>, <<43909>>, <<43910>>, <<43911>>, <<43912>>, <<43913>>,
    <<43914>>, <<43915>>, <<43916>>, <<43917>>, <<43918>>, <<43919>>, <<43920>>, <<43921>>, <<43922>>,
    <<43923>>, <<43924>>, <<43925>>, <<43926>>, <<43927>>, <<43928>>, <<43929>>, <<43930>>, <<43931>>,
    <<43932>>, <<43933>>, <<43934>>, <<43935>>, <<43936>>, <<43937>>, <<43938>>, <<43939>>, <<43940>>,
    <<43941>>, <<43942>>, <<43943>>, <<43944>>, <<43945>>, <<43946>>, <<43947>>, <<43948>>, <<43949>>,
    <<43950>>, <<43951>>, <<43952>>, <<43953>>, <<43954>>, <<43955>>, <<43956>>, <<43957>>, <<43958>>,
    <<43959>>, <<43960>>, <<43961>>, <<43962>>, <<43963>>, <<43964>>, <<43965>>, <<43966>>, <<43967>>,
    <<5112>>, <<5113>>, <<5114>>, <<5115>>, <<5116>>, <<5117>>, <<4304>>, <<4305>>, <<4306>>, <<4307>>,
    <<4308>>, <<4309>>, <<4310>>, <<4311>>, <<4312>>, <<4313>>, <<4314>>, <<4315>>, <<4316>>, <<4317>>,
    <<4318>>, <<4319>>, <<4320>>, <<4321>>, <<4322>>, <<4323>>, <<4324>>, <<4325>>, <<4326>>, <<4327>>,
    <<4328>>, <<4329>>, <<4330>>, <<4331>>, <<4332>>, <<4333>>, <<4334>>, <<4335>>, <<4336>>, <<4337>>,
    <<4338>>, <<4339>>, <<4340>>, <<4341>>, <<4342>>, <<4343>>, <<4344>>, <<4345>>, <<4346>>, <<4349>>,
    <<4350>>, <<4351>>, <<7681>>, <<7683>>, <<7685>>, <<7687>>, <<7689>>, <<7691>>, <<7693>>, <<7695>>,
    <<7697>>, <<7699>>, <<7701>>, <<7703>>, <<7705>>, <<7707>>, <<7709>>, <<7711>>, <<7713>>, <<7715>>,
    <<7717>>, <<7719>>, <<7721>>, <<7723>>, <<7725>>, <<7727>>, <<7729>>, <<7731>>, <<7733>>, <<7735>>,
    <<7737>>, <<7739>>, <<7741>>, <<7743>>, <<7745>>, <<7747>>, <<7749>>, <<7751>>, <<7753>>, <<7755>>,
    <<7757>>, <<7759>>, <<7761>>, <<7763>>, <<7765>>, <<7767>>, <<7769>>, <<7771>>, <<7773>>, <<7775>>,
    <<7777>>, <<7779>>, <<7781>>, <<7783>>, <<7785>>, <<7787>>, <<7789>>, <<7791>>, <<7793>>, <<7795>>,
    <<7797>>, <<7799>>, <<7801>>, <<7803>>, <<7805>>, <<7807>>, <<7809>>, <<7811>>, <<7813>>, <<7815>>,
    <<7817>>, <<7819>>, <<7821>>, <<7823>>, <<7825>>, <<7827>>, <<7829>>, <<223>>, <<7841>>, <<7843>>,
    <<7845>>, <<7847>>, <<7849>>, <<7851>>, <<7853>>, <<7855>>, <<7857>>, <<7859>>, <<7861>>, <<7863>>,
    <<7865>>, <<7867>>, <<7869>>, <<7871>>, <<7873>>, <<7875>>, <<7877>>, <<7879>>, <<7881>>, <<7883>>,
    <<7885>>, <<7887>>, <<7889>>, <<7891>>, <<7893>>, <<7895>>, <<7897>>, <<7899>>, <<7901>>, <<7903>>,
    <<7905>>, <<7907>>, <<7909>>, <<7911>>, <<7913>>, <<7915>>, <<7917>>, <<7919>>, <<7921>>, <<7923>>,
    <<7925>>, <<7927>>, <<7929>>, <<7931>>, <<7933>>, <<7935>>, <<7936>>, <<7937>>, <<7938>>, <<7939>>,
    <<7940>>, <<7941>>, <<7942>>, <<7943>>, <<7952>>, <<7953>>, <<7954>>, <<7955>>, <<7956>>, <<7957>>,
    <<7968>>, <<7969>>, <<7970>>, <<7971>>, <<7972>>, <<7973>>, <<7974>>, <<7975>>, <<7984>>, <<7985>>,
    <<7986>>, <<7987>>, <<7988>>, <<7989>>, <<7990>>, <<7991>>, <<8000>>, <<8001>>, <<8002>>, <<8003>>,
    <<8004>>, <<8005>>, <<8017>>, <<8019>>, <<8021>>, <<8023>>, <<8032>>, <<8033>>, <<8034>>, <<8035>>,
    <<8036>>, <<8037>>, <<8038>>, <<8039>>, <<8064>>, <<8065>>, <<8066>>, <<8067>>, <<8068>>, <<8069>>,
    <<8070>>, <<8071>>, <<8080>>, <<8081>>, <<8082>>, <<8083>>, <<8084>>, <<8085>>, <<8086>>, <<8087>>,
    <<8096>>, <<8097>>, <<8098>>, <<8099>>, <<8100>>, <<8101>>, <<8102>>, <<8103>>, <<8112>>, <<8113>>,
    <<8048>>, <<8049>>, <<8115>>, <<8050>>, <<8051>>, <<8052>>, <<8053>>, <<8131>>, <<8144>>, <<8145>>,
    <<8054>>, <<8055>>, <<8160>>, <<8161>>, <<8058>>, <<8059>>, <<8165>>, <<8056>>, <<8057>>, <<8060>>,
    <<8061>>, <<8179>>, <<969>>, <<107>>, <<229>>, <<8526>>, <<8560>>, <<8561>>, <<8562>>, <<8563>>,
    <<8564>>, <<8565>>, <<8566>>, <<8567>>, <<8568>>, <<8569>>, <<8570>>, <<8571>>, <<8572>>, <<8573>>,
    <<8574>>, <<8575>>, <<8580>>, <<9424>>, <<9425>>, <<9426>>, <<9427>>, <<9428>>, <<9429>>, <<9430>>,
    <<9431>>, <<9432>>, <<9433>>, <<9434>>, <<9435>>, <<9436>>, <<9437>>, <<9438>>, <<9439>>, <<9440>>,
    <<9441>>, <<9442>>, <<9443>>, <<9444>>, <<9445>>, <<9446>>, <<9447>>, <<9448>>, <<9449>>,
    <<11312>>, <<11313>>, <<11314>>, <<11315>>, <<11316>>, <<11317>>, <<11318>>, <<11319>>, <<11320>>,
    <<11321>>, <<11322>>, <<11323>>, <<11324>>, <<11325>>, <<11326>>, <<11327>>, <<11328>>, <<11329>>,
    <<11330>>, <<11331>>, <<11332>>, <<11333>>, <<11334>>, <<11335>>, <<11336>>, <<11337>>, <<11338>>,
    <<11339>>, <<11340>>, <<11341>>, <<11342>>, <<11343>>, <<11344>>, <<11345>>, <<11346>>, <<11347>>,
    <<11348>>, <<11349>>, <<11350>>, <<11351>>, <<11352>>, <<11353>>, <<11354>>, <<11355>>, <<11356>>,
    <<11357>>, <<11358>>, <<11359>>, <<11361>>, <<619>>, <<7549>>, <<637>>, <<11368>>, <<11370>>,
    <<11372>>, <<593>>, <<625>>, <<592>>, <<594>>, <<11379>>, <<11382>>, <<575>>, <<576>>, <<11393>>,
    <<11395>>, <<11397>>, <<11399>>, <<11401>>, <<11403>>, <<11405>>, <<11407>>, <<11409>>, <<11411>>,
    <<11413>>, <<11415>>, <<11417>>, <<11419>>, <<11421>>, <<11423>>, <<11425>>, <<11427>>, <<11429>>,
    <<11431>>, <<11433>>, <<11435>>, <<11437>>, <<11439>>, <<11441>>, <<11443>>, <<11445>>, <<11447>>,
    <<11449>>, <<11451>>, <<11453>>, <<11455>>, <<11457>>, <<11459>>, <<11461>>, <<11463>>, <<11465>>,
    <<11467>>, <<11469>>, <<11471>>, <<11473>>, <<11475>>, <<11477>>, <<11479>>, <<11481>>, <<11483>>,
    <<11485>>, <<11487>>, <<11489>>, <<11491>>, <<11500>>, <<11502>>, <<11507>>, <<42561>>, <<42563>>,
    <<42565>>, <<42567>>, <<42569>>, <<42571>>, <<42573>>, <<42575>>, <<42577>>, <<42579>>, <<42581>>,
    <<42583>>, <<42585>>, <<42587>>, <<42589>>, <<42591>>, <<42593>>, <<42595>>, <<42597>>, <<42599>>,
    <<42601>>, <<42603>>, <<42605>>, <<42625>>, <<42627>>, <<42629>>, <<42631>>, <<42633>>, <<42635>>,
    <<42637>>, <<42639>>, <<42641>>, <<42643>>, <<42645>>, <<42647>>, <<42649>>, <<42651>>, <<42787>>,
    <<42789>>, <<42791>>, <<42793>>, <<42795>>, <<42797>>, <<42799>>, <<42803>>, <<42805>>, <<42807>>,
    <<42809>>, <<42811>>, <<42813>>, <<42815>>, <<42817>>, <<42819>>, <<42821>>, <<42823>>, <<42825>>,
    <<42827>>, <<42829>>, <<42831>>, <<42833>>, <<42835>>, <<42837>>, <<42839>>, <<42841>>, <<42843>>,
    <<42845>>, <<42847>>, <<42849>>, <<42851>>, <<42853>>, <<42855>>, <<42857>>, <<42859>>, <<42861>>,
    <<42863>>, <<42874>>, <<42876>>, <<7545>>, <<42879>>, <<42881>>, <<42883>>, <<42885>>, <<42887>>,
    <<42892>>, <<613>>, <<42897>>, <<42899>>, <<42903>>, <<42905>>, <<42907>>, <<42909>>, <<42911>>,
    <<42913>>, <<42915>>, <<42917>>, <<42919>>, <<42921>>, <<614>>, <<604>>, <<609>>, <<620>>, <<618>>,
    <<670>>, <<647>>, <<669>>, <<43859>>, <<42933>>, <<42935>>, <<42937>>, <<42939>>, <<42941>>,
    <<42943>>, <<42945>>, <<42947>>, <<42900>>, <<642>>, <<7566>>, <<42952>>, <<42954>>, <<42961>>,
    <<42967>>, <<42969>>, <<42998>>, <<65345>>, <<65346>>, <<65347>>, <<65348>>, <<65349>>, <<65350>>,
    <<65351>>, <<65352>>, <<65353>>, <<65354>>, <<65355>>, <<65356>>, <<65357>>, <<65358>>, <<65359>>,
    <<65360>>, <<65361>>, <<65362>>, <<65363>>, <<65364>>, <<65365>>, <<65366>>, <<65367>>, <<65368>>,
    <<65369>>, <<65370>>, <<66600>>, <<66601>>, <<66602>>, <<66603>>, <<66604>>, <<66605>>, <<66606>>,
    <<66607>>, <<66608>>, <<66609>>, <<66610>>, <<66611>>, <<66612>>, <<66613>>, <<66614>>, <<66615>>,
    <<66616>>, <<66617>>, <<66618>>, <<66619>>, <<66620>>, <<66621>>, <<66622>>, <<66623>>, <<66624>>,
    <<66625>>, <<66626>>, <<66627>>, <<66628>>, <<66629>>, <<66630>>, <<66631>>, <<66632>>, <<66633>>,
    <<66634>>, <<66635>>, <<66636>>, <<66637>>, <<66638>>, <<66639>>, <<66776>>, <<66777>>, <<66778>>,
    <<66779>>, <<66780>>, <<66781>>, <<66782>>, <<66783>>, <<66784>>, <<66785>>, <<66786>>, <<66787>>,
    <<66788>>, <<66789>>, <<66790>>, <<66791>>, <<66792>>, <<66793>>, <<66794>>, <<66795>>, <<66796>>,
    <<66797>>, <<66798>>, <<66799>>, <<66800>>, <<66801>>, <<66802>>, <<66803>>, <<66804>>, <<66805>>,
    <<66806>>, <<66807>>, <<66808>>, <<66809>>, <<66810>>, <<66811>>, <<66967>>, <<66968>>, <<66969>>,
    <<66970>>, <<66971>>, <<66972>>, <<66973>>, <<66974>>, <<66975>>, <<66976>>, <<66977>>, <<66979>>,
    <<66980>>, <<66981>>, <<66982>>, <<66983>>, <<66984>>, <<66985>>, <<66986>>, <<66987>>, <<66988>>,
    <<66989>>, <<66990>>, <<66991>>, <<66992>>, <<66993>>, <<66995>>, <<66996>>, <<66997>>, <<66998>>,
    <<66999>>, <<67000>>, <<67001>>, <<67003>>, <<67004>>, <<68800>>, <<68801>>, <<68802>>, <<68803>>,
    <<68804>>, <<68805>>, <<68806>>, <<68807>>, <<68808>>, <<68809>>, <<68810>>, <<68811>>, <<68812>>,
    <<68813>>, <<68814>>, <<68815>>, <<68816>>, <<68817>>, <<68818>>, <<68819>>, <<68820>>, <<68821>>,
    <<68822>>, <<68823>>, <<68824>>, <<68825>>, <<68826>>, <<68827>>, <<68828>>, <<68829>>, <<68830>>,
    <<68831>>, <<68832>>, <<68833>>, <<68834>>, <<68835>>, <<68836>>, <<68837>>, <<68838>>, <<68839>>,
    <<68840>>, <<68841>>, <<68842>>, <<68843>>, <<68844>>, <<68845>>, <<68846>>, <<68847>>, <<68848>>,
    <<68849>>, <<68850>>, <<71872>>, <<71873>>, <<71874>>, <<71875>>, <<71876>>, <<71877>>, <<71878>>,
    <<71879>>, <<71880>>, <<71881>>, <<71882>>, <<71883>>, <<71884>>, <<71885>>, <<71886>>, <<71887>>,
    <<71888>>, <<71889>>, <<71890>>, <<71891>>, <<71892>>, <<71893>>, <<71894>>, <<71895>>, <<71896>>,
    <<71897>>, <<71898>>, <<71899>>, <<71900>>, <<71901>>, <<71902>>, <<71903>>, <<93792>>, <<93793>>,
    <<93794>>, <<93795>>, <<93796>>, <<93797>>, <<93798>>, <<93799>>, <<93800>>, <<93801>>, <<93802>>,
    <<93803>>, <<93804>>, <<93805>>, <<93806>>, <<93807>>, <<93808>>, <<93809>>, <<93810>>, <<93811>>,
    <<93812>>, <<93813>>, <<93814>>, <<93815>>, <<93816>>, <<93817>>, <<93818>>, <<93819>>, <<93820>>,
    <<93821>>, <<93822>>, <<93823>>, <<125218>>, <<125219>>, <<125220>>, <<125221>>, <<125222>>,
    <<125223>>, <<125224>>, <<125225>>, <<125226>>, <<125227>>, <<125228>>, <<125229>>, <<125230>>,
    <<125231>>, <<125232>>, <<125233>>, <<125234>>, <<125235>>, <<125236>>, <<125237>>, <<125238>>,
    <<125239>>, <<125240>>, <<125241>>, <<125242>>, <<125243>>, <<125244>>, <<125245>>, <<125246>>,
    <<125247>>, <<125248>>, <<125249>>, <<125250>>, <<125251>>>>

\* cased code points that are not case-ignorable
CasedRanges ==
    <<<<65, 90>>, <<97, 122>>, <<170, 170>>, <<181, 181>>, <<186, 186>>, <<192, 214>>, <<216, 246>>, <<248,
    442>>, <<444, 447>>, <<452, 659>>, <<661, 687>>, <<880, 883>>, <<886, 887>>, <<891, 893>>, <<895,
    895>>, <<902, 902>>, <<904, 906>>, <<908, 908>>, <<910, 929>>, <<931, 1013>>, <<1015, 1153>>,
    <<1162, 1327>>, <<1329, 1366>>, <<1376, 1416>>, <<4256, 4293>>, <<4295, 4295>>, <<4301, 4301>>,
    <<4304, 4346>>, <<4349, 4351>>, <<5024, 5109>>, <<5112, 5117>>, <<7296, 7304>>, <<7312, 7354>>,
    <<7357, 7359>>, <<7424, 7467>>, <<7531, 7543>>, <<7545, 7578>>, <<7680, 7957>>, <<7960, 7965>>,
    <<7968, 8005>>, <<8008, 8013>>, <<8016, 8023>>, <<8025, 8025>>, <<8027, 8027>>, <<8029, 8029>>,
    <<8031, 8061>>, <<8064, 8116>>, <<8118, 8124>>, <<8126, 8126>>, <<8130, 8132>>, <<8134, 8140>>,
    <<8144, 8147>>, <<8150, 8155>>, <<8160, 8172>>, <<8178, 8180>>, <<8182, 8188>>, <<8450, 8450>>,
    <<8455, 8455>>, <<8458, 8467>>, <<8469, 8469>>, <<8473, 8477>>, <<8484, 8484>>, <<8486, 8486>>,
    <<8488, 8488>>, <<8490, 8493>>, <<8495, 8500>>, <<8505, 8505>>, <<8508, 8511>>, <<8517, 8521>>,
    <<8526, 8526>>, <<8544, 8575>>, <<8579, 8580>>, <<9398, 9449>>, <<11264, 11387>>, <<11390, 11492>>,
    <<11499, 11502>>, <<11506, 11507>>, <<11520, 11557>>, <<11559, 11559>>, <<11565, 11565>>, <<42560,
    42605>>, <<42624, 42651>>, <<42786, 42863>>, <<42865, 42887>>, <<42891, 42894>>, <<42896, 42954>>,
    <<42960, 42961>>, <<42963, 42963>>, <<42965, 42969>>, <<42997, 42998>>, <<43002, 43002>>, <<43824,
    43866>>, <<43872, 43880>>, <<43888, 43967>>, <<64256, 64262>>, <<64275, 64279>>, <<65313, 65338>>,
    <<65345, 65370>>, <<66560, 66639>>, <<66736, 66771>>, <<66776, 66811>>, <<66928, 66938>>, <<66940,
    66954>>, <<66956, 66962>>, <<66964, 66965>>, <<66967, 66977>>, <<66979, 66993>>, <<66995, 67001>>,
    <<67003, 67004>>, <<68736, 68786>>, <<68800, 68850>>, <<71840, 71903>>, <<93760, 93823>>, <<119808,
    119892>>, <<119894, 119964>>, <<119966, 119967>>, <<119970, 119970>>, <<119973, 119974>>, <<119977,
    119980>>, <<119982, 119993>>, <<119995, 119995>>, <<119997, 120003>>, <<120005, 120069>>, <<120071,
    120074>>, <<120077, 120084>>, <<120086, 120092>>, <<120094, 120121>>, <<120123, 120126>>, <<120128,
    120132>>, <<120134, 120134>>, <<120138, 120144>>, <<120146, 120485>>, <<120488, 120512>>, <<120514,
    120538>>, <<120540, 120570>>, <<120572, 120596>>, <<120598, 120628>>, <<120630, 120654>>, <<120656,
    120686>>, <<120688, 120712>>, <<120714, 120744>>, <<120746, 120770>>, <<120772, 120779>>, <<122624,
    122633>>, <<122635, 122654>>, <<125184, 125251>>, <<127280, 127305>>, <<127312, 127337>>, <<127344,
    127369>>>>

\* case-ignorable code points
CaseIgnorableRanges ==
    <<<<39, 39>>, <<46, 46>>, <<58, 58>>, <<94, 94>>, <<96, 96>>, <<168, 168>>, <<173, 173>>, <<175, 175>>,
    <<180, 180>>, <<183, 184>>, <<688, 879>>, <<884, 885>>, <<890, 890>>, <<900, 901>>, <<903, 903>>,
    <<1155, 1161>>, <<1369, 1369>>, <<1375, 1375>>, <<1425, 1469>>, <<1471, 1471>>, <<1473, 1474>>,
    <<1476, 1477>>, <<1479, 1479>>, <<1524, 1524>>, <<1536, 1541>>, <<1552, 1562>>, <<1564, 1564>>,
    <<1600, 1600>>, <<1611, 1631>>, <<1648, 1648>>, <<1750, 1757>>, <<1759, 1768>>, <<1770, 1773>>,
    <<1807, 1807>>, <<1809, 1809>>, <<1840, 1866>>, <<1958, 1968>>, <<2027, 2037>>, <<2042, 2042>>,
    <<2045, 2045>>, <<2070, 2093>>, <<2137, 2139>>, <<2184, 2184>>, <<2192, 2193>>, <<2200, 2207>>,
    <<2249, 2306>>, <<2362, 2362>>, <<2364, 2364>>, <<2369, 2376>>, <<2381, 2381>>, <<2385, 2391>>,
    <<2402, 2403>>, <<2417, 2417>>, <<2433, 2433>>, <<2492, 2492>>, <<2497, 2500>>, <<2509, 2509>>,
    <<2530, 2531>>, <<2558, 2558>>, <<2561, 2562>>, <<2620, 2620>>, <<2625, 2626>>, <<2631, 2632>>,
    <<2635, 2637>>, <<2641, 2641>>, <<2672, 2673>>, <<2677, 2677>>, <<2689, 2690>>, <<2748, 2748>>,
    <<2753, 2757>>, <<2759, 2760>>, <<2765, 2765>>, <<2786, 2787>>, <<2810, 2815>>, <<2817, 2817>>,
    <<2876, 2876>>, <<2879, 2879>>, <<2881, 2884>>, <<2893, 2893>>, <<2901, 2902>>, <<2914, 2915>>,
    <<2946, 2946>>, <<3008, 3008>>, <<3021, 3021>>, <<3072, 3072>>, <<3076, 3076>>, <<3132, 3132>>,
    <<3134, 3136>>, <<3142, 3144>>, <<3146, 3149>>, <<3157, 3158>>, <<3170, 3171>>, <<3201, 3201>>,
    <<3260, 3260>>, <<3263, 3263>>, <<3270, 3270>>, <<3276, 3277>>, <<3298, 3299>>, <<3328, 3329>>,
    <<3387, 3388>>, <<3393, 3396>>, <<3405, 3405>>, <<3426, 3427>>, <<3457, 3457>>, <<3530, 3530>>,
    <<3538, 3540>>, <<3542, 3542>>, <<3633, 3633>>, <<3636, 3642>>, <<3654, 3662>>, <<3761, 3761>>,
    <<3764, 3772>>, <<3782, 3782>>, <<3784, 3789>>, <<3864, 3865>>, <<3893, 3893>>, <<3895, 3895>>,
    <<3897, 3897>>, <<3953, 3966>>, <<3968, 3972>>, <<3974, 3975>>, <<3981, 3991>>, <<3993, 4028>>,
    <<4038, 4038>>, <<4141, 4144>>, <<4146, 4151>>, <<4153, 4154>>, <<4157, 4158>>, <<4184, 4185>>,
    <<4190, 4192>>, <<4209, 4212>>, <<4226, 4226>>, <<4229, 4230>>, <<4237, 4237>>, <<4253, 4253>>,
    <<4348, 4348>>, <<4957, 4959>>, <<5906, 5908>>, <<5938, 5939>>, <<5970, 5971>>, <<6002, 6003>>,
    <<6068, 6069>>, <<6071, 6077>>, <<6086, 6086>>, <<6089, 6099>>, <<6103, 6103>>, <<6109, 6109>>,
    <<6155, 6159>>, <<6211, 6211>>, <<6277, 6278>>, <<6313, 6313>>, <<6432, 6434>>, <<6439, 6440>>,
    <<6450, 6450>>, <<6457, 6459>>, <<6679, 6680>>, <<6683, 6683>>, <<6742, 6742>>, <<6744, 6750>>,
    <<6752, 6752>>, <<6754, 6754>>, <<6757, 6764>>, <<6771, 6780>>, <<6783, 6783>>, <<6823, 6823>>,
    <<6832, 6862>>, <<6912, 6915>>, <<6964, 6964>>, <<6966, 6970>>, <<6972, 6972>>, <<6978, 6978>>,
    <<7019, 7027>>, <<7040, 7041>>, <<7074, 7077>>, <<7080, 7081>>, <<7083, 7085>>, <<7142, 7142>>,
    <<7144, 7145>>, <<7149, 7149>>, <<7151, 7153>>, <<7212, 7219>>, <<7222, 7223>>, <<7288, 7293>>,
    <<7376, 7378>>, <<7380, 7392>>, <<7394, 7400>>, <<7405, 7405>>, <<7412, 7412>>, <<7416, 7417>>,
    <<7468, 7530>>, <<7544, 7544>>, <<7579, 7679>>, <<8125, 8125>>, <<8127, 8129>>, <<8141, 8143>>,
    <<8157, 8159>>, <<8173, 8175>>, <<8189, 8190>>, <<8203, 8207>>, <<8216, 8217>>, <<8228, 8228>>,
    <<8231, 8231>>, <<8234, 8238>>, <<8288, 8292>>, <<8294, 8303>>, <<8305, 8305>>, <<8319, 8319>>,
    <<8336, 8348>>, <<8400, 8432>>, <<11388, 11389>>, <<11503, 11505>>, <<11631, 11631>>, <<11647,
    11647>>, <<11744, 11775>>, <<11823, 11823>>, <<12293, 12293>>, <<12330, 12333>>, <<12337, 12341>>,
    <<12347, 12347>>, <<12441, 12446>>, <<12540, 12542>>, <<40981, 40981>>, <<42232, 42237>>, <<42508,
    42508>>, <<42607, 42610>>, <<42612, 42621>>, <<42623, 42623>>, <<42652, 42655>>, <<42736, 42737>>,
    <<42752, 42785>>, <<42864, 42864>>, <<42888, 42890>>, <<42994, 42996>>, <<43000, 43001>>, <<43010,
    43010>>, <<43014, 43014>>, <<43019, 43019>>, <<43045, 43046>>, <<43052, 43052>>, <<43204, 43205>>,
    <<43232, 43249>>, <<43263, 43263>>, <<43302, 43309>>, <<43335, 43345>>, <<43392, 43394>>, <<43443,
    43443>>, <<43446, 43449>>, <<43452, 43453>>, <<43471, 43471>>, <<43493, 43494>>, <<43561, 43566>>,
    <<43569, 43570>>, <<43573, 43574>>, <<43587, 43587>>, <<43596, 43596>>, <<43632, 43632>>, <<43644,
    43644>>, <<43696, 43696>>, <<43698, 43700>>, <<43703, 43704>>, <<43710, 43711>>, <<43713, 43713>>,
    <<43741, 43741>>, <<43756, 43757>>, <<43763, 43764>>, <<43766, 43766>>, <<43867, 43871>>, <<43881,
    43883>>, <<44005, 44005>>, <<44008, 44008>>, <<44013, 44013>>, <<64286, 64286>>, <<64434, 64450>>,
    <<65024, 65039>>, <<65043, 65043>>, <<65056, 65071>>, <<65106, 65106>>, <<65109, 65109>>, <<65279,
    65279>>, <<65287, 65287>>, <<65294, 65294>>, <<65306, 65306>>, <<65342, 65342>>, <<65344, 65344>>,
    <<65392, 65392>>, <<65438, 65439>>, <<65507, 65507>>, <<65529, 65531>>, <<66045, 66045>>, <<66272,
    66272>>, <<66422, 66426>>, <<67456, 67461>>, <<67463, 67504>>, <<67506, 67514>>, <<68097, 68099>>,
    <<68101, 68102>>, <<68108, 68111>>, <<68152, 68154>>, <<68159, 68159>>, <<68325, 68326>>, <<68900,
    68903>>, <<69291, 69292>>, <<69446, 69456>>, <<69506, 69509>>, <<69633, 69633>>, <<69688, 69702>>,
    <<69744, 69744>>, <<69747, 69748>>, <<69759, 69761>>, <<69811, 69814>>, <<69817, 69818>>, <<69821,
    69821>>, <<69826, 69826>>, <<69837, 69837>>, <<69888, 69890>>, <<69927, 69931>>, <<69933, 69940>>,
    <<70003, 70003>>, <<70016, 70017>>, <<70070, 70078>>, <<70089, 70092>>, <<70095, 70095>>, <<70191,
    70193>>, <<70196, 70196>>, <<70198, 70199>>, <<70206, 70206>>, <<70367, 70367>>, <<70371, 70378>>,
    <<70400, 70401>>, <<70459, 70460>>, <<70464, 70464>>, <<70502, 70508>>, <<70512, 70516>>, <<70712,
    70719>>, <<70722, 70724>>, <<70726, 70726>>, <<70750, 70750>>, <<70835, 70840>>, <<70842, 70842>>,
    <<70847, 70848>>, <<70850, 70851>>, <<71090, 71093>>, <<71100, 71101>>, <<71103, 71104>>, <<71132,
    71133>>, <<71219, 71226>>, <<71229, 71229>>, <<71231, 71232>>, <<71339, 71339>>, <<71341, 71341>>,
    <<71344, 71349>>, <<71351, 71351>>, <<71453, 71455>>, <<71458, 71461>>, <<71463, 71467>>, <<71727,
    71735>>, <<71737, 71738>>, <<71995, 71996>>, <<71998, 71998>>, <<72003, 72003>>, <<72148, 72151>>,
    <<72154, 72155>>, <<72160, 72160>>, <<72193, 72202>>, <<72243, 72248>>, <<72251, 72254>>, <<72263,
    72263>>, <<72273, 72278>>, <<72281, 72283>>, <<72330, 72342>>, <<72344, 72345>>, <<72752, 72758>>,
    <<72760, 72765>>, <<72767, 72767>>, <<72850, 72871>>, <<72874, 72880>>, <<72882, 72883>>, <<72885,
    72886>>, <<73009, 73014>>, <<73018, 73018>>, <<73020, 73021>>, <<73023, 73029>>, <<73031, 73031>>,
    <<73104, 73105>>, <<73109, 73109>>, <<73111, 73111>>, <<73459, 73460>>, <<78896, 78904>>, <<92912,
    92916>>, <<92976, 92982>>, <<92992, 92995>>, <<94031, 94031>>, <<94095, 94111>>, <<94176, 94177>>,
    <<94179, 94180>>, <<110576, 110579>>, <<110581, 110587>>, <<110589, 110590>>, <<113821, 113822>>,
    <<113824, 113827>>, <<118528, 118573>>, <<118576, 118598>>, <<119143, 119145>>, <<119155, 119170>>,
    <<119173, 119179>>, <<119210, 119213>>, <<119362, 119364>>, <<121344, 121398>>, <<121403, 121452>>,
    <<121461, 121461>>, <<121476, 121476>>, <<121499, 121503>>, <<121505, 121519>>, <<122880, 122886>>,
    <<122888, 122904>>, <<122907, 122913>>, <<122915, 122916>>, <<122918, 122922>>, <<123184, 123197>>,
    <<123566, 123566>>, <<123628, 123631>>, <<125136, 125142>>, <<125252, 125259>>, <<127995, 127999>>,
    <<917505, 917505>>, <<917536, 917631>>, <<917760, 917999>>>>

InRanges(c, rs) == \E i \in 1..Len(rs) : rs[i][1] <= c /\ c <= rs[i][2]

\* single-character full lower-case mapping of str.lower()
LowerMap == [c \in {LowerFrom[i] : i \in 1..Len(LowerFrom)} |->
               LowerTo[CHOOSE i \in 1..Len(LowerFrom) : LowerFrom[i] = c]]

IsCased(c) == InRanges(c, CasedRanges)

IsCaseIgnorable(c) == InRanges(c, CaseIgnorableRanges)

\* U+03A3 lowers to final sigma U+03C2 when a cased character precedes it
\* (skipping case-ignorable ones) and none follows it the same way
FinalSigma(s, i) ==
    LET before == {j \in 1..(i - 1) : ~IsCaseIgnorable(s[j])}
        after == {j \in (i + 1)..Len(s) : ~IsCaseIgnorable(s[j])}
        last == CHOOSE j \in before : \A k \in before : k <= j
        next == CHOOSE j \in after : \A k \in after : j <= k
    IN /\ before # {} /\ IsCased(s[last])
       /\ after = {} \/ ~IsCased(s[next])

LowerChar(s, i) ==
    IF s[i] = 931 THEN <<IF FinalSigma(s, i) THEN 962 ELSE 963>>
    ELSE IF s[i] \in DOMAIN LowerMap THEN LowerMap[s[i]]
    ELSE <<s[i]>>

RECURSIVE LowerFromIndex(_, _)
LowerFromIndex(s, i) == IF i > Len(s) THEN <<>> ELSE LowerChar(s, i) \o LowerFromIndex(s, i + 1)

\* str.lower()
Lower(s) == LowerFromIndex(s, 1)

\* str.isspace(), the characters str.strip() removes
IsSpace(c) == InRanges(c, WhitespaceRanges)

RECURSIVE LStrip(_)
LStrip(s) == IF s # <<>> /\ IsSpace(Head(s)) THEN LStrip(Tail(s)) ELSE s

RECURSIVE RStrip(_)
RStrip(s) == IF s # <<>> /\ IsSpace(s[Len(s)]) THEN RStrip(SubSeq(s, 1, Len(s) - 1)) ELSE s

Strip(s) == RStrip(LStrip(s))

ProfileChars ==
    [ofimatico   |-> <<111, 102, 105, 109, 97, 116, 105, 99, 111>>,
     estudiante  |-> <<101, 115, 116, 117, 100, 105, 97, 110, 116, 101>>,
     programador |-> <<112, 114, 111, 103, 114, 97, 109, 97, 100, 111, 114>>,
     gamer       |-> <<103, 97, 109, 101, 114>>,
     disenador   |-> <<100, 105, 115, 101, 110, 97, 100, 111, 114>>,
     ninguno     |-> <<110, 105, 110, 103, 117, 110, 111>>]

\* profile_in in profiles: the profile whose name equals the string, if any
KnownName(s) == {n \in DOMAIN ProfileChars : ProfileChars[n] = s}

\* '', ' Gamer ', 'ninguno', 'NINGUNO', 'ofimatico', ' DISENADOR', 'xyz', '\tgamer', 'PROGRAMADOR\n', '\x0bgamer\x1c', 'GAMER\u3000'
ProfileInputs ==
    { <<>>,
      <<32, 71, 97, 109, 101, 114, 32>>,
      <<110, 105, 110, 103, 117, 110, 111>>,
      <<78, 73, 78, 71, 85, 78, 79>>,
      <<111, 102, 105, 109, 97, 116, 105, 99, 111>>,
      <<32, 68, 73, 83, 69, 78, 65, 68, 79, 82>>,
      <<120, 121, 122>>,
      <<9, 103, 97, 109, 101, 114>>,
      <<80, 82, 79, 71, 82, 65, 77, 65, 68, 79, 82, 10>>,
      <<11, 103, 97, 109, 101, 114, 28>>,
      <<71, 65, 77, 69, 82, 12288>> }

Budgets == {5000, 9000, 10000, 12000, 15000, 25000, 35000, 45000}

\* Profile selection of recommend: auto-detection from the budget when the
\* profile is empty, unknown or "ninguno".
DetectProfileNoNinguno(pin, b) ==
    IF pin = <<>> \/ KnownName(pin) = {}
    THEN IF b < 10000 THEN "ofimatico"
         ELSE IF b < 20000 THEN "estudiante"
         ELSE IF b < 30000 THEN "programador"
         ELSE IF b < 40000 THEN "gamer"
         ELSE "disenador"
    ELSE CHOOSE n \in KnownName(pin) : TRUE

DetectProfile(pin, b) ==
    IF pin = <<>> \/ KnownName(pin) = {} \/ pin = ProfileChars["ninguno"]
    THEN IF b < 10000 THEN "ofimatico"
         ELSE IF b < 20000 THEN "estudiante"
         ELSE IF b < 30000 THEN "programador"
         ELSE IF b < 40000 THEN "gamer"
         ELSE "disenador"
    ELSE CHOOSE n \in KnownName(pin) : TRUE

AutoDetected(pin) == pin = <<>> \/ KnownName(pin) = {} \/ pin = ProfileChars["ninguno"]

\* ---------------------------------------------------------------------
\* Helpers on sequences
\* ---------------------------------------------------------------------
Range(s) == {s[i] : i \in 1..Len(s)}

\* min(xs, key=price): the first element of least price
MinByPrice(s) ==
    s[CHOOSE i \in 1..Len(s) :
         /\ \A j \in 1..Len(s) : s[i].price <= s[j].price
         /\ \A j \in 1..(i - 1) : s[j].price > s[i].price]

\* ---------------------------------------------------------------------
\* Selection helpers. Each returns the set of components the helper may
\* return (random.choice gives several); NullComp stands for None.
\* ---------------------------------------------------------------------

\* sort key (performance_score, price) with reverse=True: a ranks before b
KeyGt(a, b) == a.perf > b.perf \/ (a.perf = b.perf /\ a.price > b.price)

\* list.sort(key, reverse=True): stable, so equal keys keep list order
RECURSIVE SortDesc(_)
SortDesc(s) ==
    IF s = <<>> THEN <<>>
    ELSE LET i == CHOOSE i \in 1..Len(s) :
                    /\ \A j \in 1..Len(s) : ~KeyGt(s[j], s[i])
                    /\ \A j \in 1..(i - 1) : KeyGt(s[i], s[j])
         IN <<s[i]>> \o SortDesc(SubSeq(s, 1, i - 1) \o SubSeq(s, i + 1, Len(s)))

\* ---------------------------------------------------------------------
\* IEEE-754 binary64 products. Naturals beyond 31 bits are little-endian
\* sequences of base-2^15 limbs; a double is [m |-> mantissa, e |-> exp],
\* worth m * 2^e, with m rounded to 53 bits (round half to even).
\* ---------------------------------------------------------------------
LimbBase == 32768

RECURSIVE BNorm(_)
BNorm(a) == IF a # <<>> /\ a[Len(a)] = 0 THEN BNorm(SubSeq(a, 1, Len(a) - 1)) ELSE a

RECURSIVE BFromInt(_)
BFromInt(n) == IF n = 0 THEN <<>> ELSE <<n % LimbBase>> \o BFromInt(n \div LimbBase)

RECURSIVE BMulDigitC(_, _, _)
BMulDigitC(a, d, c) ==
    IF a = <<>> THEN BFromInt(c)
    ELSE LET v == Head(a) * d + c
         IN <<v % LimbBase>> \o BMulDigitC(Tail(a), d, v \div LimbBase)

BMulDigit(a, d) == BNorm(BMulDigitC(a, d, 0))

RECURSIVE BAddC(_, _, _)
BAddC(a, b, c) ==
    IF a = <<>> /\ b = <<>> THEN BFromInt(c)
    ELSE LET v == (IF a = <<>> THEN 0 ELSE Head(a)) + (IF b = <<>> THEN 0 ELSE Head(b)) + c
         IN <<v % LimbBase>> \o BAddC(IF a = <<>> THEN <<>> ELSE Tail(a),
                                      IF b = <<>> THEN <<>> ELSE Tail(b), v \div LimbBase)

BAdd(a, b) == BNorm(BAddC(a, b, 0))

RECURSIVE BMul(_, _)
BMul(a, b) ==
    IF a = <<>> THEN <<>>
    ELSE LET rest == BMul(Tail(a), b)
         IN BAdd(BMulDigit(b, Head(a)), IF rest = <<>> THEN <<>> ELSE <<0>> \o rest)

\* quotient and remainder of a by a small divisor d
RECURSIVE BDiv(_, _)
BDiv(a, d) ==
    IF a = <<>> THEN [q |-> <<>>, r |-> 0]
    ELSE LET hi == BDiv(Tail(a), d)
             v == hi.r * LimbBase + Head(a)
         IN [q |-> BNorm(<<v \div d>> \o hi.q), r |-> v % d]

\* 2^k
BPow2(k) == [i \in 1..(k \div 15 + 1) |-> IF i = k \div 15 + 1 THEN 2^(k % 15) ELSE 0]

\* a * 2^k
BShl(a, k) == BMul(a, BPow2(k))

\* a \div 2^k
BShr(a, k) ==
    IF Len(a) <= k \div 15 THEN <<>>
    ELSE BDiv(SubSeq(a, k \div 15 + 1, Len(a)), 2^(k % 15)).q

RECURSIVE SmallBitLen(_)
SmallBitLen(n) == IF n = 0 THEN 0 ELSE 1 + SmallBitLen(n \div 2)

BBitLen(a) == IF a = <<>> THEN 0 ELSE (Len(a) - 1) * 15 + SmallBitLen(a[Len(a)])

RECURSIVE BLeqTop(_, _, _)
BLeqTop(a, b, i) ==
    IF i = 0 THEN TRUE
    ELSE IF a[i] # b[i] THEN a[i] < b[i] ELSE BLeqTop(a, b, i - 1)

BLeq(a, b) == IF Len(a) # Len(b) THEN Len(a) < Len(b) ELSE BLeqTop(a, b, Len(a))

BOdd(a) == a # <<>> /\ a[1] % 2 = 1

\* the magnitude nearest a * 2^e; sticky0 marks a nonzero part below a
RoundDouble(a, e, sticky0) ==
    IF BBitLen(a) <= 53 THEN [m |-> a, e |-> e]
    ELSE LET rk == BBitLen(a) - 53
             rt == BShr(a, rk - 1)
             rq == BShr(rt, 1)
             rup == BOdd(rt) /\ (sticky0 \/ BShl(rt, rk - 1) # a \/ BOdd(rq))
         IN [m |-> IF rup THEN BAdd(rq, <<1>>) ELSE rq, e |-> e + rk]

Abs(n) == IF n < 0 THEN -n ELSE n

\* a signed double: [neg, m, e], worth (-1 if neg) * m * 2^e
Signed(neg, r) == [neg |-> neg, m |-> r.m, e |-> r.e]

\* the double of the decimal literal n/100 (0.35, 1.15, 0.2, ...)
DecDoubleOf(n) ==
    LET dqr == BDiv(BShl(BFromInt(Abs(n)), 70), 100)
    IN Signed(n < 0, RoundDouble(dqr.q, -70, dqr.r # 0))

DecTable == [n \in 0..100 |-> DecDoubleOf(n)]

DecDouble(n) == IF n \in 0..100 THEN DecTable[n] ELSE DecDoubleOf(n)

\* float(b) * x for an integer b
FlMulInt(b, x) == Signed((b < 0) # x.neg, RoundDouble(BMul(BFromInt(Abs(b)), x.m), x.e, FALSE))

FlMul(x, y) == Signed(x.neg # y.neg, RoundDouble(BMul(x.m, y.m), x.e + y.e, FALSE))

\* integer k >= 0 at most the magnitude of x, and at least it
MagLeq(k, x) ==
    IF x.e >= 0 THEN BLeq(BFromInt(k), BShl(x.m, x.e))
    ELSE BLeq(BShl(BFromInt(k), -x.e), x.m)

MagGeq(k, x) ==
    IF x.e >= 0 THEN BLeq(BShl(x.m, x.e), BFromInt(k))
    ELSE BLeq(x.m, BShl(BFromInt(k), -x.e))

\* integer n <= double x
IntLeqDouble(n, x) ==
    IF x.m = <<>> THEN n <= 0
    ELSE IF ~x.neg THEN n <= 0 \/ MagLeq(n, x)
    ELSE n < 0 /\ MagGeq(-n, x)

\* price <= max_budget * target_percent * 1.15 with target_percent = pct/100,
\* evaluated as (b * p) * 1.15 in doubles
WithinCeiling(c, b, pct) ==
    IntLeqDouble(c.price, FlMul(FlMulInt(b, DecDouble(pct)), DecDouble(115)))

\* price <= budget * 0.2 in doubles
MonitorAffordable(m, b) == IntLeqDouble(m.price, FlMulInt(b, DecDouble(20)))

ChooseBestComponent(comps, b, pct) ==
    LET cands == SelectSeq(comps, LAMBDA c : WithinCeiling(c, b, pct))
        sorted == SortDesc(cands)
    IN IF cands = <<>> THEN {NullComp}
       ELSE IF Len(sorted) > 2 THEN {sorted[1], sorted[2]}
       ELSE {sorted[1]}

ChooseAnyMotherboard(mobos, cpu) ==
    IF cpu = NullComp THEN {NullComp} ELSE Range(mobos)

ChooseCompatibleMotherboard(mobos, cpu) ==
    IF cpu = NullComp THEN {NullComp}
    ELSE LET compatibles == SelectSeq(mobos, LAMBDA m : m.socket = cpu.socket)
         IN IF compatibles # <<>> THEN Range(compatibles) ELSE Range(mobos)

ChooseGpuFirst(gpus, pinfo, b, pct) ==
    IF ~pinfo.gpu_required
    THEN IF gpus # <<>> THEN {gpus[1]} ELSE {NullComp}
    ELSE ChooseBestComponent(gpus, b, pct)

ChooseGpuForProfile(gpus, pinfo, b, pct) ==
    IF ~pinfo.gpu_required
    THEN LET ints == SelectSeq(gpus, LAMBDA g : g.level = "integrated")
         IN IF ints # <<>> THEN {ints[1]}
            ELSE IF gpus # <<>> THEN {gpus[1]} ELSE {NullComp}
    ELSE ChooseBestComponent(gpus, b, pct)

RamCandidatesStrict(rams, pinfo) ==
    LET f == SelectSeq(rams, LAMBDA r : r.size > pinfo.min_ram_gb)
    IN IF f = <<>> /\ rams # <<>> THEN <<MinByPrice(rams)>> ELSE f

RamCandidates(rams, pinfo) ==
    LET f == SelectSeq(rams, LAMBDA r : r.size >= pinfo.min_ram_gb)
    IN IF f = <<>> /\ rams # <<>> THEN <<MinByPrice(rams)>> ELSE f

SsdCandidates(ssds, pinfo) ==
    LET f == SelectSeq(ssds, LAMBDA s : s.size >= pinfo.min_ssd_gb)
    IN IF f = <<>> /\ ssds # <<>> THEN <<MinByPrice(ssds)>> ELSE f

\* choose_ram_and_ssd: the set of possible (ram, ssd) pairs
ChooseRamAndSsd(rams, ssds, pinfo, b, rpct, spct) ==
    LET rc == RamCandidates(rams, pinfo)
        sc == SsdCandidates(ssds, pinfo)
        rset == IF rc # <<>> THEN ChooseBestComponent(rc, b, rpct) ELSE {NullComp}
        sset == IF sc # <<>> THEN ChooseBestComponent(sc, b, spct) ELSE {NullComp}
    IN rset \X sset

ChooseMonitorHighGate(monitors, profile, b) ==
    IF monitors = <<>> THEN {NullComp}
    ELSE IF profile = "gamer" /\ b > 40000
    THEN LET f == SelectSeq(monitors, LAMBDA m : m.hz >= 144)
         IN IF f # <<>> THEN Range(f) ELSE Range(monitors)
    ELSE IF profile = "disenador" /\ b > 30000
    THEN LET f == SelectSeq(monitors, LAMBDA m : m.res \in {"1440p", "4K"})
         IN IF f # <<>> THEN Range(f) ELSE Range(monitors)
    ELSE LET f == SelectSeq(monitors, LAMBDA m : MonitorAffordable(m, b))
         IN IF f # <<>> THEN Range(f) ELSE Range(monitors)

ChooseMonitor(monitors, profile, b) ==
    IF monitors = <<>> THEN {NullComp}
    ELSE IF profile = "gamer" /\ b > 20000
    THEN LET f == SelectSeq(monitors, LAMBDA m : m.hz >= 144)
         IN IF f # <<>> THEN Range(f) ELSE Range(monitors)
    ELSE IF profile = "disenador" /\ b > 30000
    THEN LET f == SelectSeq(monitors, LAMBDA m : m.res \in {"1440p", "4K"})
         IN IF f # <<>> THEN Range(f) ELSE Range(monitors)
    ELSE LET f == SelectSeq(monitors, LAMBDA m : MonitorAffordable(m, b))
         IN IF f # <<>> THEN Range(f) ELSE Range(monitors)

\* gpu.get("power_w", 100); a GPU without power_w carries power -1
PowerOf(g) == IF g.power = -1 THEN 100 ELSE g.power

ChoosePsuTier2Low(psus, gpu) ==
    IF psus = <<>> THEN NullComp
    ELSE IF gpu = NullComp THEN psus[1]
    ELSE LET power == PowerOf(gpu)
         IN IF power <= 100 THEN psus[1]
            ELSE IF power <= 160 THEN (IF Len(psus) > 1 THEN psus[2] ELSE psus[1])
            ELSE IF power <= 200 THEN (IF Len(psus) > 2 THEN psus[3] ELSE psus[1])
            ELSE psus[Len(psus)]

ChoosePsu(psus, gpu) ==
    IF psus = <<>> THEN NullComp
    ELSE IF gpu = NullComp THEN psus[1]
    ELSE LET power == PowerOf(gpu)
         IN IF power <= 100 THEN psus[1]
            ELSE IF power <= 160 THEN (IF Len(psus) > 1 THEN psus[2] ELSE psus[1])
            ELSE IF power <= 200 THEN (IF Len(psus) > 2 THEN psus[3] ELSE psus[Len(psus)])
            ELSE psus[Len(psus)]

\* min_base: cheapest cpu, ram, ssd, psu, motherboard and monitor
MinBase(c) ==
    MinByPrice(c.cpus).price + MinByPrice(c.rams).price + MinByPrice(c.ssds).price
    + MinByPrice(c.psus).price + MinByPrice(c.motherboards).price
    + MinByPrice(c.monitors).price

TotalPriceNoPsu(cpu, gpu, ram, ssd, psu, mobo, mon) ==
    cpu.price + gpu.price + ram.price + ssd.price + mobo.price + mon.price

TotalPrice(cpu, gpu, ram, ssd, psu, mobo, mon) ==
    cpu.price + gpu.price + ram.price + ssd.price + psu.price + mobo.price + mon.price

ExceedsBudgetSwapped(total, b) == b > total

ExceedsBudget(total, b) == total > b

\* `x or fallback` on a component (a non-empty dict is truthy)
OrElse(x, y) == IF x # NullComp THEN x ELSE y

NoComps == [CPU |-> NullComp, GPU |-> NullComp, RAM |-> NullComp, SSD |-> NullComp,
            Motherboard |-> NullComp, PSU |-> NullComp, Monitor |-> NullComp]

NoResult == [kind |-> "none", profile |-> "none", comps |-> NoComps, total |-> 0,
             exceeds |-> FALSE, minimum_required |-> 0, has_components |-> FALSE,
             fallback |-> FALSE, auto |-> FALSE]

\* ---------------------------------------------------------------------
\* The handler
\* ---------------------------------------------------------------------
Init ==
    /\ cat \in Catalogs
    /\ profileIn \in ProfileInputs
    /\ budget \in Budgets
    /\ pc = "start"
    /\ result = NoResult
    /\ psuList = <<>> /\ gpuA = NullComp /\ gpuB = NullComp
    /\ psuA = 0 /\ psuB = 0
    /\ candList = <<>> /\ percent = 0 /\ chosen = NullComp

\* recommend, budget below min_base: the infeasibility error
RecommendTooLow ==
    LET pin == Strip(Lower(profileIn))
        profile == DetectProfile(pin, budget)
    IN /\ pc = "start"
       /\ budget < MinBase(cat)
       /\ pc' = "done"
       /\ result' = [NoResult EXCEPT !.kind = "error", !.profile = profile,
                                     !.minimum_required = MinBase(cat),
                                     !.auto = AutoDetected(pin)]
       /\ UNCHANGED <<cat, profileIn, budget>>
       /\ UNCHANGED helperVars

\* recommend, budget at least min_base: selection, second pass, totals
Recommend ==
    LET pin == Strip(Lower(profileIn))
        profile == DetectProfile(pin, budget)
        pinfo == Profiles[profile]
        alloc == IF profile \in DOMAIN Allocations THEN Allocations[profile] ELSE [x \in {} |-> 0]
    IN /\ pc = "start"
       /\ budget >= MinBase(cat)
       /\ \E cpu1 \in ChooseBestComponent(cat.cpus, budget, AllocGet(alloc, "cpu", 25)),
             gpu1 \in ChooseGpuForProfile(cat.gpus, pinfo, budget, AllocGet(alloc, "gpu", 25)),
             rs \in ChooseRamAndSsd(cat.rams, cat.ssds, pinfo, budget,
                                    AllocGet(alloc, "ram", 15), AllocGet(alloc, "ssd", 10)),
             mon1 \in ChooseMonitor(cat.monitors, profile, budget) :
          \E mobo1 \in ChooseCompatibleMotherboard(cat.motherboards, cpu1) :
            LET ram1 == rs[1]
                ssd1 == rs[2]
                psu1 == ChoosePsu(cat.psus, gpu1)
                missing == NullComp \in {cpu1, gpu1, ram1, ssd1, psu1, mobo1, mon1}
                cpu == IF missing THEN OrElse(cpu1, MinByPrice(cat.cpus)) ELSE cpu1
                gpu == IF missing THEN OrElse(gpu1, MinByPrice(cat.gpus)) ELSE gpu1
                ram == IF missing THEN OrElse(ram1, MinByPrice(cat.rams)) ELSE ram1
                ssd == IF missing THEN OrElse(ssd1, MinByPrice(cat.ssds)) ELSE ssd1
                psu == IF missing THEN OrElse(psu1, MinByPrice(cat.psus)) ELSE psu1
                mon == IF missing THEN OrElse(mon1, MinByPrice(cat.monitors)) ELSE mon1
            IN \E mobo \in (IF missing /\ mobo1 = NullComp
                            THEN ChooseCompatibleMotherboard(cat.motherboards, cpu)
                            ELSE {mobo1}) :
                 LET total == TotalPrice(cpu, gpu, ram, ssd, psu, mobo, mon)
                 IN /\ pc' = "done"
                    /\ result' =
                         [kind |-> "ok", profile |-> profile,
                          comps |-> [CPU |-> cpu, GPU |-> gpu, RAM |-> ram, SSD |-> ssd,
                                     Motherboard |-> mobo, PSU |-> psu, Monitor |-> mon],
                          total |-> total, exceeds |-> ExceedsBudget(total, budget),
                          minimum_required |-> 0, has_components |-> TRUE,
                          fallback |-> missing, auto |-> AutoDetected(pin)]
       /\ UNCHANGED <<cat, profileIn, budget>>
       /\ UNCHANGED helperVars

Next == RecommendTooLow \/ Recommend

Spec == Init /\ [][Next]_vars

\* ---------------------------------------------------------------------
\* Properties of recommend
\* ---------------------------------------------------------------------
Done == pc = "done"

Ok == Done /\ result.kind = "ok"

Slots == {"CPU", "GPU", "RAM", "SSD", "Motherboard", "PSU", "Monitor"}

SlotCategory == [CPU |-> "cpus", GPU |-> "gpus", RAM |-> "rams", SSD |-> "ssds",
                 Motherboard |-> "motherboards", PSU |-> "psus", Monitor |-> "monitors"]

SumOfSlots == result.comps.CPU.price + result.comps.GPU.price + result.comps.RAM.price
              + result.comps.SSD.price + result.comps.Motherboard.price
              + result.comps.PSU.price + result.comps.Monitor.price

\* C1: with budget >= min_base, recommend succeeds with seven non-null
\* components, one from each catalog category, and the total is their sum.
C1_SevenComponents ==
    (Done /\ budget >= MinBase(cat)) =>
        /\ result.kind = "ok"
        /\ result.has_components
        /\ DOMAIN result.comps = Slots
        /\ \A sl \in Slots : result.comps[sl] # NullComp
                             /\ result.comps[sl] \in Range(cat[SlotCategory[sl]])
        /\ result.total = SumOfSlots

C1_Witness == Ok /\ result.fallback /\ result.comps.CPU.price > 5000

\* C2: in every success result, exceeds_budget holds iff the total is
\* above the input budget.
C2_ExceedsFlag == Ok => (result.exceeds <=> result.total > budget)

C2_Witness == Ok /\ result.exceeds

\* C3: the minimum budget as the claim states it, over all seven categories
MinBaseSeven(c) ==
    MinByPrice(c.cpus).price + MinByPrice(c.gpus).price + MinByPrice(c.rams).price
    + MinByPrice(c.ssds).price + MinByPrice(c.psus).price
    + MinByPrice(c.motherboards).price + MinByPrice(c.monitors).price

\* C3: a budget below the cheapest seven-slot build gives an error carrying
\* minimum_required = that minimum and no components; a budget at or above
\* it never gives the infeasibility error.
C3_MinimumRequired ==
    Done =>
        /\ budget < MinBaseSeven(cat) =>
               /\ result.kind = "error"
               /\ result.minimum_required = MinBaseSeven(cat)
               /\ ~result.has_components
        /\ budget >= MinBaseSeven(cat) => result.kind # "error"

\* C4: the profile used: the budget step function when the normalised
\* profile is empty, "ninguno" or unknown, else the named profile.
StepProfile(b) ==
    CASE b < 10000 -> "ofimatico"
      [] 10000 <= b /\ b < 20000 -> "estudiante"
      [] 20000 <= b /\ b < 30000 -> "programador"
      [] 30000 <= b /\ b < 40000 -> "gamer"
      [] 40000 <= b -> "disenador"

C4_ProfileDetection ==
    Done =>
        LET n == Strip(Lower(profileIn))
            named == {x \in DOMAIN ProfileChars : ProfileChars[x] = n}
        IN IF n = <<>> \/ named = {} \/ named = {"ninguno"}
           THEN result.profile = StepProfile(budget)
           ELSE result.profile \in named

C4_Witness ==
    /\ Done /\ profileIn = <<78, 73, 78, 71, 85, 78, 79>> /\ budget = 12000
    /\ result.profile = "estudiante"

\* C5: the motherboard matches the CPU socket whenever some catalog
\* motherboard has that socket, also after the fallback pass.
C5_SocketMatch ==
    (Ok /\ \E m \in Range(cat.motherboards) : m.socket = result.comps.CPU.socket)
        => result.comps.Motherboard.socket = result.comps.CPU.socket

C5_Witness ==
    /\ Ok /\ result.fallback /\ result.comps.CPU.socket = "LGA1700"
    /\ Len(cat.motherboards) = 2
    /\ result.comps.Motherboard.socket = result.comps.CPU.socket

\* C6: a profile that does not require a GPU gets an integrated GPU
\* whenever the catalog has one.
C6_IntegratedGpu ==
    (Ok /\ ~Profiles[result.profile].gpu_required
        /\ \E g \in Range(cat.gpus) : g.level = "integrated")
        => result.comps.GPU.level = "integrated"

C6_Witness ==
    /\ Ok /\ ~Profiles[result.profile].gpu_required
    /\ cat.gpus[1].level # "integrated" /\ result.comps.GPU.level = "integrated"

\* C8 as stated: gamer at 35000 gets a discrete GPU, a >= 120 Hz monitor
\* when one exists, total = sum, and no over-budget flag when sum <= 35000.
C8_GamerScenario ==
    (Ok /\ result.profile = "gamer" /\ budget = 35000) =>
        /\ result.comps.GPU.level # "integrated"
        /\ (\E m \in Range(cat.monitors) : m.hz >= 120) => result.comps.Monitor.hz >= 120
        /\ result.total = SumOfSlots
        /\ SumOfSlots <= 35000 => ~result.exceeds

GamerGpuCeilingHolds(g) == WithinCeiling(g, 35000, AllocGet(Allocations["gamer"], "gpu", 25))

\* the GPUs a gamer at 35000 can be given: with some GPU within the GPU
\* ceiling, the one ranked first by (performance_score, price) descending,
\* or either of the first two when more than two are within it; with none
\* within it, the cheapest GPU
GamerGpuPicks(gpus) ==
    LET ranked == SortDesc(SelectSeq(gpus, GamerGpuCeilingHolds))
    IN IF ranked = <<>> THEN {MinByPrice(gpus)}
       ELSE IF Len(ranked) > 2 THEN {ranked[1], ranked[2]}
       ELSE {ranked[1]}

\* C8 (amended): gamer at 35000 gets a >= 144 Hz monitor when one exists;
\* a discrete GPU when the gamer profile requires a GPU and every GPU it
\* can be picked (GamerGpuPicks) is discrete; total = sum; and no
\* over-budget flag when sum <= 35000.
C8_GamerScenarioAmended ==
    (Ok /\ result.profile = "gamer" /\ budget = 35000) =>
        /\ (\E m \in Range(cat.monitors) : m.hz >= 144) => result.comps.Monitor.hz >= 144
        /\ (/\ Profiles["gamer"].gpu_required
            /\ \A g \in GamerGpuPicks(cat.gpus) : g.level # "integrated")
             => result.comps.GPU.level # "integrated"
        /\ result.total = SumOfSlots
        /\ SumOfSlots <= 35000 => ~result.exceeds

C8_Witness ==
    /\ Ok /\ result.profile = "gamer" /\ budget = 35000
    /\ result.comps.Monitor.hz >= 144 /\ result.comps.GPU.level # "integrated"
    /\ \E g \in Range(cat.gpus) : g.level = "integrated" /\ GamerGpuCeilingHolds(g)

\* C10 as stated: RAM and SSD meet the profile minimum whenever the catalog
\* has such a part.
C10_MinSizes ==
    Ok =>
        /\ (\E r \in Range(cat.rams) : r.size >= Profiles[result.profile].min_ram_gb)
               => result.comps.RAM.size >= Profiles[result.profile].min_ram_gb
        /\ (\E s \in Range(cat.ssds) : s.size >= Profiles[result.profile].min_ssd_gb)
               => result.comps.SSD.size >= Profiles[result.profile].min_ssd_gb

AllocOf(p) == IF p \in DOMAIN Allocations THEN Allocations[p] ELSE [x \in {} |-> 0]

\* C10 (amended): RAM and SSD meet the profile minimum whenever the catalog
\* has such a part priced within the slot ceiling budget * percent * 1.15
\* (evaluated in doubles, as choose_best_component does).
C10_MinSizesAmended ==
    Ok =>
        LET pr == Profiles[result.profile]
            rp == AllocGet(AllocOf(result.profile), "ram", 15)
            sp == AllocGet(AllocOf(result.profile), "ssd", 10)
        IN /\ (\E r \in Range(cat.rams) : r.size >= pr.min_ram_gb /\ WithinCeiling(r, budget, rp))
                  => result.comps.RAM.size >= pr.min_ram_gb
           /\ (\E s \in Range(cat.ssds) : s.size >= pr.min_ssd_gb /\ WithinCeiling(s, budget, sp))
                  => result.comps.SSD.size >= pr.min_ssd_gb

C10_Witness ==
    /\ Ok /\ result.comps.RAM.size >= Profiles[result.profile].min_ram_gb
    /\ \E r \in Range(cat.rams) : r.size < Profiles[result.profile].min_ram_gb

\* ---------------------------------------------------------------------
\* choose_psu on its own: a PSU list (its entries are their list
\* positions) and two GPUs
\* ---------------------------------------------------------------------
MaxPsus == 4

PowerValues == {-1, 50, 100, 101, 150, 160, 161, 200, 201, 300}

GpuWithPower(w) == Comp("gpu", 1000, 1, "none", 0, 0, "none", w, "mid")

PsuInit ==
    /\ cat = [cpus |-> <<CpuA>>, gpus |-> <<GInt>>, rams |-> <<R8>>, ssds |-> <<S256>>,
              psus |-> <<P500>>, motherboards |-> <<MA>>, monitors |-> <<M60>>]
    /\ profileIn = <<>> /\ budget = 0 /\ result = NoResult
    /\ pc = "start"
    /\ psuList \in {[i \in 1..n |-> i] : n \in 1..MaxPsus}
    /\ \E wa, wb \in PowerValues : gpuA = GpuWithPower(wa) /\ gpuB = GpuWithPower(wb)
    /\ psuA = 0 /\ psuB = 0
    /\ candList = <<>> /\ percent = 0 /\ chosen = NullComp

\* choose_psu applied to both GPUs
ChoosePsuStep ==
    /\ pc = "start"
    /\ pc' = "done"
    /\ psuA' = ChoosePsu(psuList, gpuA)
    /\ psuB' = ChoosePsu(psuList, gpuB)
    /\ UNCHANGED <<cat, profileIn, budget, result, psuList, gpuA, gpuB, candList, percent, chosen>>

PsuSpec == PsuInit /\ [][ChoosePsuStep]_vars

\* C7: choose_psu is monotone in GPU power draw (power_w, default 100):
\* the higher-drawing GPU never gets a PSU earlier in the list.
C7_PsuMonotone ==
    (pc = "done" /\ PowerOf(gpuA) <= PowerOf(gpuB)) => psuB >= psuA

C7_Witness ==
    /\ pc = "done" /\ Len(psuList) = 3
    /\ PowerOf(gpuA) < PowerOf(gpuB) /\ psuA < psuB /\ psuB = 3

\* ---------------------------------------------------------------------
\* choose_best_component on its own: a candidate list, a budget and a
\* percentage
\* ---------------------------------------------------------------------
MaxCands == 3

X1 == Comp("x1", 100, 5, "none", 0, 0, "none", 0, "none")
X2 == Comp("x2", 200, 5, "none", 0, 0, "none", 0, "none")
X3 == Comp("x3", 575, 7, "none", 0, 0, "none", 0, "none")
X4 == Comp("x4", 900, 9, "none", 0, 0, "none", 0, "none")

CandidatePool == {X1, X2, X3, X4}

BestInit ==
    /\ cat = [cpus |-> <<CpuA>>, gpus |-> <<GInt>>, rams |-> <<R8>>, ssds |-> <<S256>>,
              psus |-> <<P500>>, motherboards |-> <<MA>>, monitors |-> <<M60>>]
    /\ profileIn = <<>> /\ budget = 1000 /\ result = NoResult
    /\ pc = "start"
    /\ psuList = <<>> /\ gpuA = NullComp /\ gpuB = NullComp /\ psuA = 0 /\ psuB = 0
    /\ candList \in UNION {[1..n -> CandidatePool] : n \in 1..MaxCands}
    /\ percent \in {25, 50, 100}
    /\ chosen = NullComp

\* choose_best_component(candList, budget, percent)
ChooseBestStep ==
    /\ pc = "start"
    /\ pc' = "done"
    /\ chosen' \in ChooseBestComponent(candList, budget, percent)
    /\ UNCHANGED <<cat, profileIn, budget, result, psuList, gpuA, gpuB, psuA, psuB, candList, percent>>

BestSpec == BestInit /\ [][ChooseBestStep]_vars

\* C9: the pick is within the ceiling budget * percent * 1.15, has the
\* highest performance_score there, and the lowest price among those.
C9_BestComponent ==
    (pc = "done" /\ \E i \in 1..Len(candList) : WithinCeiling(candList[i], budget, percent)) =>
        LET within == {c \in Range(candList) : WithinCeiling(c, budget, percent)}
        IN /\ chosen \in within
           /\ \A c \in within : c.perf <= chosen.perf
           /\ \A c \in within : c.perf = chosen.perf => chosen.price <= c.price

====
